---- MODULE Spec2Model ----
(***************************************************************************)
(* State-machine model of the terminal text editor in src/src/main.rs:     *)
(* EditerState (buffer, cursor, row_offset, path), its operations, the     *)
(* renderer draw, the file adapter open/save and the event loop of main.   *)
(* Rows, columns and indexes are 0-based as in the source; TLA+ sequences  *)
(* are 1-based, so line i of the source is buffer[i + 1].                  *)
(***************************************************************************)
EXTENDS Integers, Sequences, FiniteSets, TLC

\* ------------------------------------------------------------------------
\* Bounds of the model
\* ------------------------------------------------------------------------
\* the buffer stops growing at MaxSize characters, line breaks included
MaxSize == 2
\* the file given on the command line has at most MaxFile characters
MaxFile == 2
\* the terminal has 1..MaxRows rows and 2..MaxCols columns
MaxRows == 2
MaxCols == 2
\* the states of SpecAny have buffers of at most MaxText characters, line
\* breaks included, and a row_offset of at most MaxText
MaxText == 3

\* ------------------------------------------------------------------------
\* Characters
\* ------------------------------------------------------------------------
NL == "\n"
CR == "\r"
TAB == "\t"
SP == " "

\* char::is_control for the characters of the model
is_control(c) == c \in {NL, CR, TAB}

\* char::is_whitespace, the class str::trim_end strips
is_whitespace(c) == c \in {SP, NL, CR, TAB}

\* stands for a character of display width 2 (East Asian wide, e.g. U+3042)
WIDE == "W"

\* c.width().unwrap_or(0): control characters have no width (None -> 0),
\* wide characters take two columns, the others one
width(c) == IF is_control(c) THEN 0 ELSE IF c = WIDE THEN 2 ELSE 1

\* the characters Key::Char(c) delivers: letters, space, Enter and Tab
KeyChars == {"a", SP, NL, TAB}

\* the characters a file on disk is made of
FileChars == {"a", SP, NL, CR}

\* ------------------------------------------------------------------------
\* Small helpers
\* ------------------------------------------------------------------------
min(a, b) == IF a <= b THEN a ELSE b

max(a, b) == IF a >= b THEN a ELSE b

RECURSIVE SeqsUpTo(_, _)
SeqsUpTo(S, n) ==
    IF n = 0 THEN {<<>>}
    ELSE LET shorter == SeqsUpTo(S, n - 1)
         IN  shorter \cup {Append(s, x) : s \in shorter, x \in S}

RECURSIVE Flatten(_)
Flatten(ss) == IF ss = <<>> THEN <<>> ELSE Head(ss) \o Flatten(Tail(ss))

\* characters of the buffer, counting the break between two lines as one
Size(buf) == Len(Flatten(buf)) + Len(buf) - 1

\* Vec::remove(k), k 0-based
RemoveAt(s, k) == SubSeq(s, 1, k) \o SubSeq(s, k + 2, Len(s))

\* Vec::insert(k, x), k 0-based
InsertAt(s, k, x) == SubSeq(s, 1, k) \o <<x>> \o SubSeq(s, k + 1, Len(s))

\* ------------------------------------------------------------------------
\* File adapter: str::lines, str::trim_end, open, save
\* ------------------------------------------------------------------------
\* str::lines(): split_inclusive('\n'), then strip one "\n" and, only when a
\* "\n" was stripped, one "\r" before it.  A final piece without "\n" is
\* returned as it is; an empty final piece is not produced.
StripCR(piece) ==
    IF Len(piece) > 0 /\ piece[Len(piece)] = CR
    THEN SubSeq(piece, 1, Len(piece) - 1)
    ELSE piece

RECURSIVE lines_from(_, _, _)
lines_from(s, cur, acc) ==
    IF s = <<>>
    THEN IF cur = <<>> THEN acc ELSE Append(acc, cur)
    ELSE IF Head(s) = NL
         THEN lines_from(Tail(s), <<>>, Append(acc, StripCR(cur)))
         ELSE lines_from(Tail(s), Append(cur, Head(s)), acc)

lines(s) == lines_from(s, <<>>, <<>>)

RECURSIVE trim_end(_)
trim_end(line) ==
    IF Len(line) > 0 /\ is_whitespace(line[Len(line)])
    THEN trim_end(SubSeq(line, 1, Len(line) - 1))
    ELSE line

\* open without the is_empty test
load_buffer_unchecked(text) ==
    LET ls == lines(text)
    IN  [i \in 1..Len(ls) |-> trim_end(ls[i])]

\* the closure of open: lines, each trimmed at its end; never an empty Vec
load_buffer(text) ==
    LET ls == lines(text)
        buf == [i \in 1..Len(ls) |-> trim_end(ls[i])]
    IN  IF buf = <<>> THEN << <<>> >> ELSE buf

\* A file on disk: readable tells whether fs::read_to_string succeeds.
NoFile == [readable |-> FALSE, text |-> <<>>]

File(text) == [readable |-> TRUE, text |-> text]

NoPath == "None"

ThePath == "file"

default == [buffer |-> << <<>> >>,
            cursor |-> [row |-> 0, column |-> 0],
            row_offset |-> 0,
            path |-> NoPath]

\* open falling back to the empty Vec (unwrap_or_default) on a failed read
open_default_on_failure(s, p, file) ==
    [buffer |-> IF file.readable THEN load_buffer(file.text) ELSE <<>>,
     cursor |-> [row |-> 0, column |-> 0],
     row_offset |-> 0,
     path |-> p]

open(s, p, file) ==
    [buffer |-> IF file.readable THEN load_buffer(file.text) ELSE << <<>> >>,
     cursor |-> [row |-> 0, column |-> 0],
     row_offset |-> 0,
     path |-> p]

\* save with "\n" between the lines only, none after the last
RECURSIVE serialize_joined(_)
serialize_joined(buf) ==
    IF buf = <<>> THEN <<>>
    ELSE IF Len(buf) = 1 THEN Head(buf)
    ELSE Head(buf) \o <<NL>> \o serialize_joined(Tail(buf))

\* what save writes: every character of every line, a "\n" after each line
RECURSIVE serialize(_)
serialize(buf) ==
    IF buf = <<>> THEN <<>> ELSE Head(buf) \o <<NL>> \o serialize(Tail(buf))

\* save: the file after the call; untouched without a path or when
\* File::create fails
save(s, file, can_create) ==
    IF s.path # NoPath /\ can_create THEN File(serialize(s.buffer)) ELSE file

\* ------------------------------------------------------------------------
\* EditerState operations.  s is the EditerState record, rows and cols the
\* result of terminal_size()
\* ------------------------------------------------------------------------
line_len(s, r) == Len(s.buffer[r + 1])

\* scroll moving the window one row at a time
scroll_by_one(s, rows) ==
    [s EXCEPT !.row_offset =
        IF s.cursor.row < s.row_offset THEN s.row_offset - 1
        ELSE IF s.cursor.row >= s.row_offset + rows THEN s.row_offset + 1
        ELSE s.row_offset]

\* scroll revealing the cursor one row short: cursor.row - rows in place of
\* cursor.row + 1 - rows
scroll_one_short(s, rows) ==
    LET clamped == min(s.row_offset, s.cursor.row)
    IN  [s EXCEPT !.row_offset =
            IF s.cursor.row >= rows
            THEN max(clamped, s.cursor.row - rows)
            ELSE clamped]

scroll(s, rows) ==
    LET clamped == min(s.row_offset, s.cursor.row)
    IN  [s EXCEPT !.row_offset =
            IF s.cursor.row + 1 >= rows
            THEN max(clamped, s.cursor.row + 1 - rows)
            ELSE clamped]

cursor_up(s, rows) ==
    scroll(IF s.cursor.row > 0
           THEN [s EXCEPT !.cursor =
                    [row |-> s.cursor.row - 1,
                     column |-> min(line_len(s, s.cursor.row - 1), s.cursor.column)]]
           ELSE s,
           rows)

\* cursor_dwon keeping the column of the row it leaves
cursor_dwon_unclamped(s, rows) ==
    scroll(IF s.cursor.row + 1 < Len(s.buffer)
           THEN [s EXCEPT !.cursor.row = s.cursor.row + 1]
           ELSE s,
           rows)

cursor_dwon(s, rows) ==
    scroll(IF s.cursor.row + 1 < Len(s.buffer)
           THEN [s EXCEPT !.cursor =
                    [row |-> s.cursor.row + 1,
                     column |-> min(s.cursor.column, line_len(s, s.cursor.row + 1))]]
           ELSE s,
           rows)

\* cursor_left wrapping from column 0 to the end of the previous line
cursor_left_wrapping(s, rows) ==
    scroll(IF s.cursor.column > 0
           THEN [s EXCEPT !.cursor.column = s.cursor.column - 1]
           ELSE IF s.cursor.row > 0
           THEN [s EXCEPT !.cursor = [row |-> s.cursor.row - 1,
                                      column |-> line_len(s, s.cursor.row - 1)]]
           ELSE s,
           rows)

cursor_left(s, rows) ==
    scroll(IF s.cursor.column > 0
           THEN [s EXCEPT !.cursor.column = s.cursor.column - 1]
           ELSE s,
           rows)

\* cursor_right without the clamp to the line length
cursor_right_unclamped(s, rows) ==
    scroll([s EXCEPT !.cursor.column = s.cursor.column + 1], rows)

cursor_right(s, rows) ==
    scroll([s EXCEPT !.cursor.column =
               min(s.cursor.column + 1, line_len(s, s.cursor.row))],
           rows)

\* insert whose newline keeps the cursor column on the new line
insert_newline_keeps_column(s, c, rows) ==
    LET r == s.cursor.row
        k == s.cursor.column
        line == s.buffer[r + 1]
    IN  IF c = NL
        THEN LET rest == SubSeq(line, k + 1, Len(line))
                 kept == [s.buffer EXCEPT ![r + 1] = SubSeq(line, 1, k)]
             IN  scroll([s EXCEPT !.buffer = InsertAt(kept, r + 1, rest),
                                  !.cursor = [row |-> r + 1, column |-> k]],
                        rows)
        ELSE IF ~is_control(c)
        THEN cursor_right([s EXCEPT !.buffer[r + 1] = InsertAt(line, k, c)], rows)
        ELSE s

insert(s, c, rows) ==
    LET r == s.cursor.row
        k == s.cursor.column
        line == s.buffer[r + 1]
    IN  IF c = NL
        THEN LET rest == SubSeq(line, k + 1, Len(line))
                 kept == [s.buffer EXCEPT ![r + 1] = SubSeq(line, 1, k)]
             IN  scroll([s EXCEPT !.buffer = InsertAt(kept, r + 1, rest),
                                  !.cursor = [row |-> r + 1, column |-> 0]],
                        rows)
        ELSE IF ~is_control(c)
        THEN cursor_right([s EXCEPT !.buffer[r + 1] = InsertAt(line, k, c)], rows)
        ELSE s

\* back_space whose join leaves the cursor at the start of the joined line
back_space_join_at_start(s, rows) ==
    IF s.cursor = [row |-> 0, column |-> 0]
    THEN s
    ELSE IF s.cursor.column = 0
    THEN LET r == s.cursor.row
             line == s.buffer[r + 1]
             removed == RemoveAt(s.buffer, r)
         IN  [s EXCEPT !.buffer = [removed EXCEPT ![r] = removed[r] \o line],
                       !.cursor = [row |-> r - 1, column |-> 0]]
    ELSE LET m == cursor_left(s, rows)
         IN  [m EXCEPT !.buffer[m.cursor.row + 1] =
                 RemoveAt(m.buffer[m.cursor.row + 1], m.cursor.column)]

\* back_space removing the character under the cursor, not the one before
back_space_at_cursor(s, rows) ==
    IF s.cursor = [row |-> 0, column |-> 0]
    THEN s
    ELSE IF s.cursor.column = 0
    THEN LET r == s.cursor.row
             line == s.buffer[r + 1]
             removed == RemoveAt(s.buffer, r)
         IN  [s EXCEPT !.buffer = [removed EXCEPT ![r] = removed[r] \o line],
                       !.cursor = [row |-> r - 1, column |-> Len(removed[r])]]
    ELSE LET m == cursor_left(s, rows)
         IN  [m EXCEPT !.buffer[m.cursor.row + 1] =
                 RemoveAt(m.buffer[m.cursor.row + 1], s.cursor.column)]

back_space(s, rows) ==
    IF s.cursor = [row |-> 0, column |-> 0]
    THEN s
    ELSE IF s.cursor.column = 0
    THEN LET r == s.cursor.row
             line == s.buffer[r + 1]
             removed == RemoveAt(s.buffer, r)
         IN  [s EXCEPT !.buffer = [removed EXCEPT ![r] = removed[r] \o line],
                       !.cursor = [row |-> r - 1, column |-> Len(removed[r])]]
    ELSE LET m == cursor_left(s, rows)
         IN  [m EXCEPT !.buffer[m.cursor.row + 1] =
                 RemoveAt(m.buffer[m.cursor.row + 1], m.cursor.column)]

\* delete at the end of a line dropping the next line without appending it
delete_dropping_next(s) ==
    LET r == s.cursor.row
        k == s.cursor.column
    IN  IF r = Len(s.buffer) - 1 /\ k = line_len(s, r)
        THEN s
        ELSE IF k = line_len(s, r)
        THEN [s EXCEPT !.buffer = RemoveAt(s.buffer, r + 1)]
        ELSE [s EXCEPT !.buffer[r + 1] = RemoveAt(s.buffer[r + 1], k)]

delete(s) ==
    LET r == s.cursor.row
        k == s.cursor.column
    IN  IF r = Len(s.buffer) - 1 /\ k = line_len(s, r)
        THEN s
        ELSE IF k = line_len(s, r)
        THEN LET line == s.buffer[r + 2]
                 removed == RemoveAt(s.buffer, r + 1)
             IN  [s EXCEPT !.buffer = [removed EXCEPT ![r + 1] = removed[r + 1] \o line]]
        ELSE [s EXCEPT !.buffer[r + 1] = RemoveAt(s.buffer[r + 1], k)]

\* ------------------------------------------------------------------------
\* Renderer.  draw scans the buffer from row_offset; the result is the
\* sequence of items written after the clear and Goto(1, 1) (characters and
\* the row terminator "\r\n") and display_cursor, the screen cell recorded
\* for the cursor, <<>> standing for None and <<row, col>> for Some.
\* ------------------------------------------------------------------------
RowBreak == "\r\n"

None == <<>>

\* the wrap test, with <= in place of >=: the character that reaches the
\* last column stays on its row
must_wrap_late(col, w, cols) == col + w > cols

\* if col + width >= cols
must_wrap(col, w, cols) == col + w >= cols

\* the height test, with > in place of >=
past_last_row_late(row, rows) == row > rows

\* if row >= rows, after row += 1
past_last_row(row, rows) == row >= rows

\* cells lists, for every character written, its buffer position (i, j) and
\* the values of row and col at its write!
RECURSIVE draw_scan(_, _, _, _, _, _, _, _, _, _)
draw_scan(s, rows, cols, i, j, row, col, out, dc, cells) ==
    IF i >= Len(s.buffer)
    THEN [out |-> out, display_cursor |-> dc, cells |-> cells]
    ELSE LET dc1 == IF s.cursor = [row |-> i, column |-> j] THEN <<row, col>> ELSE dc
         IN  IF j < line_len(s, i)
             THEN LET c == s.buffer[i + 1][j + 1]
                      w == width(c)
                  IN  IF must_wrap(col, w, cols)
                      THEN IF past_last_row(row + 1, rows)
                           THEN [out |-> out, display_cursor |-> dc1, cells |-> cells]
                           ELSE draw_scan(s, rows, cols, i, j + 1, row + 1, w,
                                          out \o <<RowBreak, c>>, dc1,
                                          Append(cells, [i |-> i, j |-> j,
                                                         row |-> row + 1, col |-> 0]))
                      ELSE draw_scan(s, rows, cols, i, j + 1, row, col + w,
                                     Append(out, c), dc1,
                                     Append(cells, [i |-> i, j |-> j,
                                                    row |-> row, col |-> col]))
             ELSE IF past_last_row(row + 1, rows)
                  THEN [out |-> out, display_cursor |-> dc1, cells |-> cells]
                  ELSE draw_scan(s, rows, cols, i + 1, 0, row + 1, 0,
                                 Append(out, RowBreak), dc1, cells)

\* draw that takes back a row terminator written last
draw_without_last_break(s, rows, cols) ==
    LET f == draw_scan(s, rows, cols, s.row_offset, 0, 0, 0, <<>>, None, <<>>)
    IN  IF f.out # <<>> /\ f.out[Len(f.out)] = RowBreak
        THEN [f EXCEPT !.out = SubSeq(f.out, 1, Len(f.out) - 1)]
        ELSE f

draw(s, rows, cols) == draw_scan(s, rows, cols, s.row_offset, 0, 0, 0, <<>>, None, <<>>)

\* ------------------------------------------------------------------------
\* The program: main and its event loop
\* ------------------------------------------------------------------------
VARIABLES
    buffer,      \* EditerState.buffer: the lines, each a sequence of characters
    cursor,      \* EditerState.cursor: [row, column]
    row_offset,  \* EditerState.row_offset: first buffer row drawn
    path,        \* EditerState.path: NoPath or ThePath
    disk,        \* the file at ThePath
    can_create,  \* whether fs::File::create succeeds on ThePath
    rows,        \* terminal_size(): rows
    cols,        \* terminal_size(): columns
    frame,       \* what the last draw wrote and the cursor cell it recorded
    pc           \* "loop": waiting for an event; "exited": main returned;
                 \* "panicked": main unwound from a panic

vars == <<buffer, cursor, row_offset, path, disk, can_create, rows, cols, frame, pc>>

state == [buffer |-> buffer, cursor |-> cursor, row_offset |-> row_offset, path |-> path]

\* the state after a handler, followed by the draw that ends the loop body
Redraw(s) ==
    /\ buffer' = s.buffer
    /\ cursor' = s.cursor
    /\ row_offset' = s.row_offset
    /\ path' = s.path
    /\ frame' = draw(s, rows, cols)
    /\ UNCHANGED <<can_create, rows, cols, pc>>

Files == {NoFile} \cup {File(text) : text \in SeqsUpTo(FileChars, MaxFile)}

Terminal ==
    /\ rows \in 1..MaxRows
    /\ cols \in 2..MaxCols

Init ==
    /\ Terminal
    /\ \/ /\ disk = NoFile
          /\ can_create = FALSE
          /\ buffer = default.buffer
          /\ cursor = default.cursor
          /\ row_offset = default.row_offset
          /\ path = default.path
       \/ \E f \in Files, w \in BOOLEAN :
            LET s == open(default, ThePath, f)
            IN  /\ disk = f
                /\ can_create = w
                /\ buffer = s.buffer
                /\ cursor = s.cursor
                /\ row_offset = s.row_offset
                /\ path = s.path
    /\ frame = draw(state, rows, cols)
    /\ pc = "loop"

KeyUp ==
    /\ pc = "loop"
    /\ Redraw(cursor_up(state, rows))
    /\ UNCHANGED disk

KeyDown ==
    /\ pc = "loop"
    /\ Redraw(cursor_dwon(state, rows))
    /\ UNCHANGED disk

KeyLeft ==
    /\ pc = "loop"
    /\ Redraw(cursor_left(state, rows))
    /\ UNCHANGED disk

KeyRight ==
    /\ pc = "loop"
    /\ Redraw(cursor_right(state, rows))
    /\ UNCHANGED disk

\* the model stops growing the buffer at MaxSize characters
Fits(c) == (c = NL \/ ~is_control(c)) => Size(buffer) < MaxSize

KeyChar ==
    /\ pc = "loop"
    /\ \E c \in KeyChars :
          /\ Fits(c)
          /\ Redraw(insert(state, c, rows))
    /\ UNCHANGED disk

KeyBackspace ==
    /\ pc = "loop"
    /\ Redraw(back_space(state, rows))
    /\ UNCHANGED disk

KeyDelete ==
    /\ pc = "loop"
    /\ Redraw(delete(state))
    /\ UNCHANGED disk

KeySave ==
    /\ pc = "loop"
    /\ disk' = save(state, disk, can_create)
    /\ Redraw(state)

\* Ctrl-c saving the buffer before it returns
KeyQuit_saving ==
    /\ pc = "loop"
    /\ pc' = "exited"
    /\ disk' = save(state, disk, can_create)
    /\ UNCHANGED <<buffer, cursor, row_offset, path, can_create, rows, cols, frame>>

\* Ctrl-c: return from main, nothing else
KeyQuit ==
    /\ pc = "loop"
    /\ pc' = "exited"
    /\ UNCHANGED <<buffer, cursor, row_offset, path, disk, can_create, rows, cols, frame>>

\* any other event: the `_ => {}` arm, then the draw
EvOther ==
    /\ pc = "loop"
    /\ Redraw(state)
    /\ UNCHANGED disk

\* an Err item of stdin.events(): evt.unwrap() panics
EvError ==
    /\ pc = "loop"
    /\ pc' = "panicked"
    /\ UNCHANGED <<buffer, cursor, row_offset, path, disk, can_create, rows, cols, frame>>

\* the event stream ends: the for loop ends and main returns
EvEnd ==
    /\ pc = "loop"
    /\ pc' = "exited"
    /\ UNCHANGED <<buffer, cursor, row_offset, path, disk, can_create, rows, cols, frame>>

Next ==
    \/ KeyUp
    \/ KeyDown
    \/ KeyLeft
    \/ KeyRight
    \/ KeyChar
    \/ KeyBackspace
    \/ KeyDelete
    \/ KeySave
    \/ KeyQuit
    \/ EvOther
    \/ EvError
    \/ EvEnd

Spec == Init /\ [][Next]_vars

\* ------------------------------------------------------------------------
\* A second specification: the same program started in any valid
\* EditerState (any buffer, any cursor inside it, any row_offset) on any
\* terminal height (0 included), for the properties stated of every state
\* ------------------------------------------------------------------------
AnyBuffers == {lines(Append(text, NL)) : text \in SeqsUpTo({"a", SP, NL}, MaxText)}

InitAny ==
    /\ rows \in 0..MaxRows
    /\ cols \in 2..MaxCols
    /\ buffer \in AnyBuffers
    /\ cursor \in {[row |-> r, column |-> k] : r \in 0..MaxText, k \in 0..MaxText}
    /\ cursor.row < Len(buffer)
    /\ cursor.column <= Len(buffer[cursor.row + 1])
    /\ row_offset \in 0..MaxText
    /\ path = NoPath
    /\ disk = NoFile
    /\ can_create = FALSE
    /\ frame = draw(state, rows, cols)
    /\ pc = "loop"

SpecAny == InitAny /\ [][Next]_vars

\* ------------------------------------------------------------------------
\* A third specification, for the renderer: the same program started on
\* buffers that hold wide and zero-width characters and the line abcdefgh,
\* with any cursor, any row_offset inside the buffer and terminals up to
\* MaxDrawRows x MaxDrawCols
\* ------------------------------------------------------------------------
MaxDraw == 3
MaxDrawRows == 3
MaxDrawCols == 5

DrawChars == {"a", WIDE, TAB}

ExampleLine == <<"a", "b", "c", "d", "e", "f", "g", "h">>

DrawBuffers ==
    {lines(Append(text, NL)) : text \in SeqsUpTo(DrawChars \cup {NL}, MaxDraw)}
        \cup {<<ExampleLine>>}

InitDraw ==
    /\ rows \in 1..MaxDrawRows
    /\ cols \in 2..MaxDrawCols
    /\ buffer \in DrawBuffers
    /\ cursor \in {[row |-> r, column |-> k] : r \in 0..MaxDraw, k \in 0..Len(ExampleLine)}
    /\ cursor.row < Len(buffer)
    /\ cursor.column <= Len(buffer[cursor.row + 1])
    /\ row_offset \in 0..MaxDraw
    /\ row_offset < Len(buffer)
    /\ path = NoPath
    /\ disk = NoFile
    /\ can_create = FALSE
    /\ frame = draw(state, rows, cols)
    /\ pc = "loop"

SpecDraw == InitDraw /\ [][Next]_vars

\* ------------------------------------------------------------------------
\* Properties
\* ------------------------------------------------------------------------
cur_line == buffer[cursor.row + 1]

ends_in_space(line) == Len(line) > 0 /\ is_whitespace(line[Len(line)])

\* C1: after any sequence of key events from the default state or from a
\* state produced by open, the cursor is valid: cursor.row is below the
\* number of lines and cursor.column is at most the length of its line.
C1_CursorValid ==
    /\ cursor.row >= 0
    /\ cursor.row < Len(buffer)
    /\ cursor.column >= 0
    /\ cursor.column <= Len(buffer[cursor.row + 1])

\* C1 witness: an opened file was edited into several lines and the cursor
\* stands on a lower, shorter line than the first one (a move clamped it or
\* an edit put it there).
C1_Witness ==
    /\ path = ThePath
    /\ Len(buffer) > 1
    /\ cursor.row > 0
    /\ cursor.column = Len(cur_line)
    /\ Len(buffer[1]) > Len(cur_line)

\* C2: on a fixed terminal of rows >= 1 the viewport holds the cursor after
\* every processed event: row_offset <= cursor.row < row_offset + rows.
C2_ViewportHoldsCursor ==
    /\ row_offset <= cursor.row
    /\ cursor.row < row_offset + rows

\* C3: every frame records a screen cell for the cursor: display_cursor is
\* never None.
C3_CursorCellRecorded == frame.display_cursor # None

\* C4: the buffer is never empty, after open and after any editing.
C4_BufferNeverEmpty == Len(buffer) >= 1

\* C4 witness: a readable file without any line was opened and the buffer
\* is the single empty line.
C4_Witness ==
    /\ path = ThePath
    /\ disk.readable
    /\ lines(disk.text) = <<>>
    /\ buffer = << <<>> >>

\* C5 as stated: with a path on which File::create succeeds, save followed
\* by open on that path gives back the buffer exactly as it is in memory.
C5_RoundTripExact ==
    (path # NoPath /\ can_create) =>
        open(state, path, save(state, disk, can_create)).buffer = buffer

\* C5 as amended: save followed by open gives back the buffer with the
\* trailing whitespace of every line removed (so exactly the buffer when no
\* line ends in whitespace), line for line.
C5_RoundTripTrimmed ==
    (path # NoPath /\ can_create) =>
        open(state, path, save(state, disk, can_create)).buffer =
            [i \in 1..Len(buffer) |-> trim_end(buffer[i])]

\* C5 witness: the buffer was saved to the file while one of several lines
\* ends in a typed space.
C5_Witness ==
    /\ path # NoPath
    /\ can_create
    /\ disk = File(serialize(buffer))
    /\ Len(buffer) > 1
    /\ \E i \in 1..Len(buffer) : ends_in_space(buffer[i])

\* C6: in every valid state, insert(c) of an accepted character (a
\* non-control character or the newline) followed by back_space restores
\* the buffer and the cursor.
C6_InsertBackspaceInverse ==
    \A c \in {k \in KeyChars : k = NL \/ ~is_control(k)} :
        LET t == back_space(insert(state, c, rows), rows)
        IN  t.buffer = buffer /\ t.cursor = cursor

\* C6 witness: the cursor is inside a line of a buffer of several lines;
\* the newline splits that line and back_space joins it again.
C6_Witness ==
    /\ Len(buffer) > 1
    /\ cursor.column > 0
    /\ cursor.column < Len(cur_line)
    /\ Len(insert(state, NL, rows).buffer) = Len(buffer) + 1
    /\ back_space(insert(state, NL, rows), rows).buffer = buffer

\* C7: in every valid state cursor_left followed by cursor_right leaves
\* buffer and row alone; it restores the column when the column is > 0 and
\* ends at min(1, line length) when the column is 0.
C7_LeftRight ==
    LET t == cursor_right(cursor_left(state, rows), rows)
    IN  /\ t.buffer = buffer
        /\ t.cursor.row = cursor.row
        /\ t.cursor.column = IF cursor.column > 0 THEN cursor.column
                             ELSE min(1, Len(cur_line))

\* C7 witness: the cursor is at the end of a line that is not empty, where
\* cursor_left moves it and cursor_right has to bring it back.
C7_Witness ==
    /\ cursor.column > 0
    /\ cursor.column = Len(cur_line)
    /\ cursor_left(state, rows).cursor.column = cursor.column - 1

\* C8: scroll is idempotent for every cursor row, row_offset and terminal
\* height: a second scroll changes nothing.
C8_ScrollIdempotent == scroll(scroll(state, rows), rows) = scroll(state, rows)

\* C8 witness: the window is more than one row away from the cursor, so
\* the first scroll moves it.
C8_Witness ==
    /\ rows >= 1
    /\ cursor.row >= row_offset + rows + 1
    /\ scroll(state, rows).row_offset # row_offset

\* C9: an error item of the event stream is dropped: the editor state is
\* unchanged and the loop goes on.
C9_ErrorEventDropped ==
    [][EvError => (pc' = "loop" /\ UNCHANGED <<buffer, cursor, row_offset, path>>)]_vars

\* C10: the file is written only while Save is processed with a path: a
\* step that changes the file is taken in the loop, has a path, writes the
\* serialized buffer and changes nothing else; a step that ends the loop
\* leaves the file alone; without a path no step changes the file.
C10_WrittenOnlyBySave ==
    [][/\ (disk' # disk =>
              /\ pc = "loop" /\ pc' = "loop"
              /\ path = ThePath
              /\ disk' = File(serialize(buffer))
              /\ UNCHANGED <<buffer, cursor, row_offset, path>>)
       /\ (pc' # "loop" => disk' = disk)
       /\ (path = NoPath => disk' = disk)]_vars

\* C10 witness: the loop has ended with a file on disk that holds the
\* serialized buffer and is longer than any file the program was started on.
C10_Witness ==
    /\ pc = "exited"
    /\ path = ThePath
    /\ disk = File(serialize(buffer))
    /\ Len(disk.text) > MaxFile

\* C11: fail-soft load: open on a path whose read fails, from whatever state
\* it is called in, gives the buffer of exactly one empty line, the cursor
\* (0, 0), row_offset 0 and the path; a value like any other EditerState.
C11_FailSoftOpen ==
    open(state, ThePath, NoFile) =
        [buffer |-> << <<>> >>,
         cursor |-> [row |-> 0, column |-> 0],
         row_offset |-> 0,
         path |-> ThePath]

\* C11 witness: the editor runs its loop on the state open left after the
\* read of the file failed.
C11_Witness ==
    /\ pc = "loop"
    /\ path = ThePath
    /\ ~disk.readable
    /\ state = open(default, ThePath, disk)
    /\ frame.display_cursor = <<0, 0>>

\* the reference layout of soft wrap for characters of width 1: a line of
\* n characters takes max(1, ceiling(n / (cols - 1))) screen rows
screen_rows_of(line, c) ==
    IF Len(line) = 0 THEN 1 ELSE (Len(line) + c - 2) \div (c - 1)

RECURSIVE first_screen_row(_, _, _, _)
first_screen_row(buf, from, i, c) ==
    IF i <= from THEN 0
    ELSE first_screen_row(buf, from, i - 1, c) + screen_rows_of(buf[i], c)

all_width_one(buf) ==
    \A i \in 1..Len(buf) : \A j \in 1..Len(buf[i]) : width(buf[i][j]) = 1

\* C12: soft wrap layout: when all characters have width 1, the k-th
\* character of a line is written at screen column k mod (cols - 1) of the
\* (k div (cols - 1))-th screen row of its line, no screen row holds more
\* than cols - 1 characters, and on 5 columns abcdefgh is written as abcd,
\* row break, efgh.
C12_SoftWrapLayout ==
    all_width_one(buffer) =>
        /\ \A n \in 1..Len(frame.cells) :
              LET cell == frame.cells[n]
              IN  /\ cell.col = cell.j % (cols - 1)
                  /\ cell.row = first_screen_row(buffer, row_offset, cell.i, cols)
                                    + cell.j \div (cols - 1)
        /\ \A r \in 0..rows :
              Cardinality({n \in 1..Len(frame.cells) : frame.cells[n].row = r}) <= cols - 1
        /\ (buffer = <<ExampleLine>> /\ cols = 5 /\ rows >= 2) =>
              SubSeq(frame.out, 1, 9) =
                  <<"a", "b", "c", "d", RowBreak, "e", "f", "g", "h">>

\* C12 witness: the line abcdefgh is drawn on a terminal of 5 columns and
\* at least 2 rows, and its fifth character starts the second screen row.
C12_Witness ==
    /\ buffer = <<ExampleLine>>
    /\ cols = 5
    /\ rows >= 2
    /\ Len(frame.cells) = 8
    /\ frame.cells[5] = [i |-> 0, j |-> 4, row |-> 1, col |-> 0]

row_breaks(out) == Cardinality({n \in 1..Len(out) : out[n] = RowBreak})

RECURSIVE line_width(_)
line_width(line) ==
    IF line = <<>> THEN 0 ELSE width(Head(line)) + line_width(Tail(line))

\* the lines from row_offset on are fewer than the terminal rows and none
\* of them is wide enough to wrap
fits_above_last_row ==
    /\ row_offset < Len(buffer)
    /\ Len(buffer) - row_offset < rows
    /\ \A i \in (row_offset + 1)..Len(buffer) : line_width(buffer[i]) < cols

\* C13 as stated: the last thing draw writes before it positions the cursor
\* is never a row terminator.
C13_NoTrailingBreak ==
    frame.out # <<>> => frame.out[Len(frame.out)] # RowBreak

\* C13 as amended: a row terminator is written only when a screen row
\* follows below (at most rows - 1 of them in a frame); after the last
\* buffer line one is written whenever that line ends above the last
\* terminal row: with fewer lines than rows and no wrapped line, the frame
\* has one terminator for each line and ends with a terminator.
C13_BreakOnlyAboveLastRow ==
    /\ row_breaks(frame.out) <= rows - 1
    /\ fits_above_last_row =>
          /\ frame.out # <<>>
          /\ frame.out[Len(frame.out)] = RowBreak
          /\ row_breaks(frame.out) = Len(buffer) - row_offset

\* C13 witness: two lines with text are drawn on three rows and the frame
\* ends with the terminator of the second line.
C13_Witness ==
    /\ fits_above_last_row
    /\ rows = 3
    /\ Len(buffer) = 2
    /\ row_offset = 0
    /\ Len(buffer[2]) > 0
    /\ Len(frame.cells) = Len(buffer[1]) + Len(buffer[2])
    /\ frame.out[Len(frame.out)] = RowBreak

\* C14: the cursor cell and the drawn content do not diverge: when the
\* character under the cursor is drawn, the cell recorded for the cursor is
\* the cell that character is written at.
C14_CursorOnItsCharacter ==
    \A n \in 1..Len(frame.cells) :
        LET cell == frame.cells[n]
        IN  (cell.i = cursor.row /\ cell.j = cursor.column) =>
                frame.display_cursor = <<cell.row, cell.col>>

\* buf has Len(old) + shift lines, its first n lines are those of old, and
\* the lines of old from the from-th on (1-based) are in buf, moved by shift
lines_kept(buf, old, n, from, shift) ==
    /\ Len(buf) = Len(old) + shift
    /\ \A i \in 1..n : buf[i] = old[i]
    /\ \A i \in from..Len(old) : buf[i + shift] = old[i]

prefix_of(line, k) == SubSeq(line, 1, k)

suffix_of(line, k) == SubSeq(line, k + 1, Len(line))

\* C15: for every cursor row r, offset f and terminal height H >= 1 scroll
\* sets the offset to r if r < f, to r + 1 - H if r >= f + H and leaves it
\* at f otherwise; it changes nothing else.
C15_ScrollReference ==
    rows >= 1 =>
        LET t == scroll(state, rows)
            r == cursor.row
            f == row_offset
        IN  /\ t.row_offset = IF r < f THEN r
                              ELSE IF r >= f + rows THEN r + 1 - rows
                              ELSE f
            /\ t.buffer = buffer
            /\ t.cursor = cursor
            /\ t.path = path

\* C15 witness: the cursor is below the window and scroll brings the
\* window down to it.
C15_Witness ==
    /\ rows >= 1
    /\ row_offset > 0
    /\ cursor.row >= row_offset + rows
    /\ scroll(state, rows).row_offset = cursor.row + 1 - rows

\* C16: back_space in every valid state: nothing changes at (0, 0); at a
\* column > 0 the character before the cursor is removed and the cursor
\* moves one column left; at column 0 of a row > 0 the line is appended to
\* the previous one and removed, and the cursor goes to the previous row at
\* the length that row had.
C16_BackspaceReference ==
    LET t == back_space(state, rows)
        r == cursor.row
        k == cursor.column
    IN  IF r = 0 /\ k = 0
        THEN t = state
        ELSE IF k > 0
        THEN /\ t.buffer = [buffer EXCEPT ![r + 1] =
                               prefix_of(cur_line, k - 1) \o suffix_of(cur_line, k)]
             /\ t.cursor = [row |-> r, column |-> k - 1]
        ELSE /\ lines_kept(t.buffer, buffer, r - 1, r + 2, -1)
             /\ t.buffer[r] = buffer[r] \o buffer[r + 1]
             /\ t.cursor = [row |-> r - 1, column |-> Len(buffer[r])]

\* C16 witness: the cursor is at the start of a line with text below a line
\* with text, and back_space joins the two.
C16_Witness ==
    /\ cursor.row > 0
    /\ cursor.column = 0
    /\ Len(cur_line) > 0
    /\ Len(buffer[cursor.row]) > 0
    /\ Len(back_space(state, rows).buffer) = Len(buffer) - 1

\* C17: delete in every valid state never moves the cursor or row_offset:
\* inside a line it removes the character under the cursor; at the end of
\* a line that is not the last it appends the next line and removes it
\* (ab, cd with the cursor at (0, 2) become abcd); at the end of the last
\* line nothing changes.
C17_DeleteReference ==
    LET t == delete(state)
        r == cursor.row
        k == cursor.column
        example == [buffer |-> << <<"a", "b">>, <<"c", "d">> >>,
                    cursor |-> [row |-> 0, column |-> 2],
                    row_offset |-> 0,
                    path |-> NoPath]
    IN  /\ t.cursor = cursor
        /\ t.row_offset = row_offset
        /\ t.path = path
        /\ IF k < Len(cur_line)
           THEN t.buffer = [buffer EXCEPT ![r + 1] =
                               prefix_of(cur_line, k) \o suffix_of(cur_line, k + 1)]
           ELSE IF r + 1 < Len(buffer)
           THEN /\ lines_kept(t.buffer, buffer, r, r + 3, -1)
                /\ t.buffer[r + 1] = buffer[r + 1] \o buffer[r + 2]
           ELSE t.buffer = buffer
        /\ delete(example) = [example EXCEPT !.buffer = << <<"a", "b", "c", "d">> >>]

\* C17 witness: the cursor is at the end of a line with text, the next line
\* has text too, and delete joins them.
C17_Witness ==
    /\ cursor.row + 1 < Len(buffer)
    /\ cursor.column = Len(cur_line)
    /\ cursor.column > 0
    /\ Len(buffer[cursor.row + 2]) > 0
    /\ Len(delete(state).buffer) = Len(buffer) - 1

\* C18: insert in every valid state: the newline splits the cursor's line
\* at the cursor column and puts the cursor at (row + 1, 0); a non-control
\* character is placed at the cursor column and the cursor advances one
\* column on its row; another control character (tab) changes nothing.
C18_InsertReference ==
    \A c \in KeyChars :
        LET t == insert(state, c, rows)
            r == cursor.row
            k == cursor.column
        IN  IF c = NL
            THEN /\ lines_kept(t.buffer, buffer, r, r + 2, 1)
                 /\ t.buffer[r + 1] = prefix_of(cur_line, k)
                 /\ t.buffer[r + 2] = suffix_of(cur_line, k)
                 /\ t.cursor = [row |-> r + 1, column |-> 0]
            ELSE IF ~is_control(c)
            THEN /\ t.buffer = [buffer EXCEPT ![r + 1] =
                                   prefix_of(cur_line, k) \o <<c>> \o suffix_of(cur_line, k)]
                 /\ t.cursor = [row |-> r, column |-> k + 1]
            ELSE t = state

\* C18 witness: the cursor is inside a line, where the newline leaves text
\* on both sides of the split.
C18_Witness ==
    /\ cursor.column > 0
    /\ cursor.column < Len(cur_line)
    /\ insert(state, NL, rows).cursor = [row |-> cursor.row + 1, column |-> 0]
    /\ Len(insert(state, "a", rows).buffer[cursor.row + 1]) = Len(cur_line) + 1

\* C19: navigation never modifies the buffer; cursor_up and cursor_dwon
\* move one row only when there is one and set the column to the minimum
\* of the old column and the new row's length; cursor_left and
\* cursor_right keep the row, and stay put at column 0 and at the end of
\* the line.
C19_NavigationReference ==
    LET r == cursor.row
        k == cursor.column
        u == cursor_up(state, rows)
        d == cursor_dwon(state, rows)
        l == cursor_left(state, rows)
        g == cursor_right(state, rows)
    IN  /\ u.buffer = buffer /\ d.buffer = buffer
        /\ l.buffer = buffer /\ g.buffer = buffer
        /\ u.cursor = IF r > 0
                      THEN [row |-> r - 1, column |-> min(k, Len(buffer[r]))]
                      ELSE cursor
        /\ d.cursor = IF r + 1 < Len(buffer)
                      THEN [row |-> r + 1, column |-> min(k, Len(buffer[r + 2]))]
                      ELSE cursor
        /\ u.cursor.column <= k /\ d.cursor.column <= k
        /\ l.cursor = [row |-> r, column |-> IF k > 0 THEN k - 1 ELSE 0]
        /\ g.cursor = [row |-> r, column |-> IF k < Len(cur_line) THEN k + 1 ELSE k]

\* C19 witness: the cursor is at column 0 of a row below a line with text,
\* above a shorter line than its own: cursor_left stays, cursor_up keeps
\* column 0, cursor_dwon has nothing to clamp.
C19_Witness ==
    /\ cursor.row > 0
    /\ cursor.column = 0
    /\ Len(buffer[cursor.row]) > 0
    /\ cursor_left(state, rows).cursor = cursor
    /\ cursor_up(state, rows).cursor.row = cursor.row - 1

\* the display width of the widest character of the buffer
widest_in(buf) ==
    LET ws == {0} \cup UNION {{width(buf[i][j]) : j \in 1..Len(buf[i])} : i \in 1..Len(buf)}
    IN  CHOOSE w \in ws : \A v \in ws : v <= w

\* C20: rendering stays inside the terminal height: with rows >= 1 a frame
\* has at most rows - 1 row terminators and no character on a screen row
\* >= rows (the drawing stops, inside a line if need be); a cell recorded
\* for the cursor has a row < rows and, when the terminal has more columns
\* than the widest character, a column < cols.
C20_InsideTerminal ==
    /\ row_breaks(frame.out) <= rows - 1
    /\ \A n \in 1..Len(frame.cells) :
          frame.cells[n].row >= 0 /\ frame.cells[n].row < rows
    /\ frame.display_cursor # None =>
          /\ frame.display_cursor[1] < rows
          /\ cols > widest_in(buffer) => frame.display_cursor[2] < cols

\* C20 witness: the drawing stopped on the last terminal row inside a line
\* whose later characters are not drawn, and a cursor cell is recorded.
C20_Witness ==
    /\ Len(frame.cells) > 0
    /\ LET last == frame.cells[Len(frame.cells)]
       IN  /\ last.row = rows - 1
           /\ last.j > 0
           /\ last.j + 1 < Len(buffer[last.i + 1])
    /\ frame.display_cursor # None

====
